---- MODULE Spec2Model ----
(***************************************************************************)
(* Model of the recording controller of obs-transcriber                    *)
(* (web/recorder.py, driven by web/app.py, remote control in               *)
(* scripts/obs_controller.py) and of the caption scripts                   *)
(* scripts/filter_hallucinations.py, scripts/interleave.py and             *)
(* scripts/speaker_diarization.py.                                         *)
(*                                                                         *)
(* Text is a sequence of one-character strings.  File contents are text;   *)
(* a file that does not exist is NoFile, a reserved token that no text     *)
(* contains.  The date string produced by strftime and the path printed    *)
(* by find are single opaque tokens (they contain neither whitespace nor   *)
(* delimiters).                                                            *)
(***************************************************************************)
EXTENDS Integers, Sequences, FiniteSets, TLC

VARIABLES
    pending_file,    \* contents of .pending_meeting, or NoFile
    queue_file,      \* contents of processing_queue.csv, or NoFile
    media,           \* media files of the recording directory, oldest first
    nextFile,        \* number of the next media file the recorder writes
    obsProc,         \* the recorder application runs
    obsRec,          \* the recorder is recording (output_active)
    call,            \* the last handler call and what it returned
    processing_pid,  \* RecordingController._processing_pid, or None
    req,             \* position of each request thread inside process_recordings
    workers,         \* position of each _run_processing thread
    jobs,            \* state of the external job each thread spawned
    subtitles,       \* captions filter_srt_file parsed from its input file
    filter_out,      \* what filter_srt_file produced, and how often it ran
    me_subs,         \* captions interleave.py parsed from the "Me" file
    other_subs,      \* captions interleave.py parsed from the others file
    transcript,      \* what interleave.py printed
    speaker_segments, \* the turns the diarization pipeline finds in the audio
    captions,        \* captions of the file diarize_audio reads
    diarize          \* position and locals of diarize_audio, and its output file

recVars == <<pending_file, queue_file, media, nextFile, obsProc, obsRec>>

procVars == <<processing_pid, req, workers, jobs>>

diarVars == <<speaker_segments, captions, diarize>>

scriptVars == <<subtitles, filter_out, me_subs, other_subs, transcript, diarVars>>

vars == <<pending_file, queue_file, media, nextFile, obsProc, obsRec, call,
          processing_pid, req, workers, jobs, scriptVars>>

----------------------------------------------------------------------------
(* Bounds *)

MaxQueue == 2
MaxFiles == 1
MaxJobs == 2
NumThreads == 2
MaxRows == 3

MaxSubtitles == 3
MaxRuns == 2
MaxSubs == 2
MaxSegments == 2
MaxCaptions == 2
IndepJobs == 1

(* Program constants *)

max_wait == 10

(* filter_hallucinations.py, line 39: seconds of silence, words *)
long_gap == 20
few_words == 2
(* filter_hallucinations.py, line 43 *)
short_text == 20

----------------------------------------------------------------------------
(* Text helpers: Python str.strip, str.split, str.join *)

NL == "\n"
NoFile == <<"<absent>">>
(* _processing_pid = None; process ids are positive *)
None == 0

IsSpace(c) == c \in {" ", NL}

RECURSIVE lstrip(_)
lstrip(s) == IF s # <<>> /\ IsSpace(Head(s)) THEN lstrip(Tail(s)) ELSE s

RECURSIVE rstrip(_)
rstrip(s) ==
    IF s # <<>> /\ IsSpace(s[Len(s)]) THEN rstrip(SubSeq(s, 1, Len(s) - 1)) ELSE s

strip(s) == rstrip(lstrip(s))

RECURSIVE splitFrom(_, _, _, _)
splitFrom(s, sep, i, cur) ==
    IF i > Len(s) THEN <<cur>>
    ELSE IF s[i] = sep THEN <<cur>> \o splitFrom(s, sep, i + 1, <<>>)
    ELSE splitFrom(s, sep, i + 1, Append(cur, s[i]))

split(s, sep) == splitFrom(s, sep, 1, <<>>)

RECURSIVE join(_, _)
join(sep, parts) ==
    IF parts = <<>> THEN <<>>
    ELSE IF Len(parts) = 1 THEN parts[1]
    ELSE parts[1] \o <<sep>> \o join(sep, Tail(parts))

----------------------------------------------------------------------------
(* Inputs accepted by the HTTP facade *)

Names == { <<"m">>, <<" ">> }

AttendeeLists == { <<>>, << <<"b">> >> }

(* the minutes datetime.now() can return when start_recording reads it *)
Clock == {1}

(* datetime.now().strftime("%Y%m%d_%H%M") at minute t *)
strftime(t) == << IF t = 1 THEN "20260101_1000" ELSE "20260101_1001" >>

(* name of the k-th media file the recorder writes *)
MediaPath(k) == << IF k = 1 THEN "/rec/1.mkv"
                   ELSE IF k = 2 THEN "/rec/2.mkv"
                   ELSE "/rec/3.mkv" >>

----------------------------------------------------------------------------
(* Files *)

exists(f) == f # NoFile

read_text(f) == IF f = NoFile THEN <<>> ELSE f

(* the lines 181/366 read: read_text().strip().split('\n') *)
MarkerLines(f) == split(strip(read_text(f)), NL)

(* number of rows written to the queue log *)
NumRows(f) == Cardinality({i \in 1..Len(read_text(f)) : read_text(f)[i] = NL})

(* `find ... -name "*.mkv" | xargs ls -t | head -n 1`, stripped: the most   *)
(* recently modified media file, or the empty text when there is none.      *)
(* media lists the files of the recording directory, oldest first.          *)
latest_recording(m) == IF m = <<>> THEN <<>> ELSE strip(MediaPath(m[Len(m)]))

(* os.remove of the newest file *)
RemoveLatest(m) == SubSeq(m, 1, Len(m) - 1)

----------------------------------------------------------------------------
(* The value a handler returns, with the number of remote-control          *)
(* invocations it made and the outcome of the remote control ("none" when  *)
(* it was not invoked).                                                    *)

Ret(op, result, remote, rc) ==
    [op |-> op, result |-> result, remote |-> remote, rc |-> rc,
     current_meeting |-> <<>>, queue |-> <<>>]

(* no handler returned in the step: the environment or a background thread *)
(* moved                                                                   *)
NoCall == Ret("none", "none", 0, "none")

ReqThreads == 1..NumThreads

(* no caption script has run *)
NotRun == [runs |-> 0, filtered_subtitles |-> <<>>, removed_count |-> 0]

(* interleave.py has not run: nothing on its standard output, no exit     *)
(* status                                                                  *)
NotPrinted ==
    [printed |-> FALSE, header |-> <<>>, lines |-> <<>>, error |-> <<>>,
     exit |-> "none"]

(* the output file of diarize_audio does not exist *)
NoOutput == <<[index |-> 0, start |-> 0, end |-> 0, content |-> <<"<absent>">>]>>

(* diarize_audio has not been called *)
NotDiarized ==
    [pc |-> "start", subtitles |-> <<>>, i |-> 1, output |-> NoOutput,
     result |-> "none"]

DiarizeIdle ==
    /\ speaker_segments = <<>>
    /\ captions = <<>>
    /\ diarize = NotDiarized

ScriptsIdle ==
    /\ subtitles = <<>>
    /\ filter_out = NotRun
    /\ me_subs = <<>>
    /\ other_subs = <<>>
    /\ transcript = NotPrinted
    /\ DiarizeIdle

Init ==
    /\ pending_file = NoFile
    /\ queue_file = NoFile
    /\ media = <<>>
    /\ nextFile = 1
    /\ obsProc = FALSE
    /\ obsRec = FALSE
    /\ call = NoCall
    /\ processing_pid = None
    /\ req = [r \in ReqThreads |-> "idle"]
    /\ workers = <<>>
    /\ jobs = <<>>
    /\ ScriptsIdle

----------------------------------------------------------------------------
(* scripts/obs_controller.py *)

RemoteOutcomes == {"ok", "fail", "timeout"}

(* `obs_controller.py start`: exit 0 leaves the recorder recording (it was  *)
(* already, or start_record succeeded); exit 1 leaves it as it was; a       *)
(* subprocess killed by the timeout may or may not have started it.        *)
ObsAfterStart(rc) ==
    IF rc = "ok" THEN {TRUE}
    ELSE IF rc = "timeout" THEN {obsRec, TRUE}
    ELSE {obsRec}

(* `obs_controller.py stop`, exit 0: an active recording is stopped, which  *)
(* makes the recorder finalize a new media file; an inactive recorder      *)
(* prints "Not recording." and writes nothing.  here: the recorder's       *)
(* output directory is the directory RECORDING_PATH names.                 *)
MediaAfterStop(here) == IF obsRec /\ here THEN Append(media, nextFile) ELSE media

NextFileAfterStop(here) == IF obsRec /\ here THEN nextFile + 1 ELSE nextFile

----------------------------------------------------------------------------
(* RecordingController.ensure_obs_running: OBS is detected at once when it *)
(* runs; otherwise it is launched and polled max_wait times, once a        *)
(* second; appear is the second at which the launched process shows up.    *)

LaunchTimes == {1, max_wait, max_wait + 1}

ensure_obs_running(appear) == obsProc \/ appear <= max_wait

----------------------------------------------------------------------------
(* RecordingController.start_recording *)

AlreadyRecording_never == FALSE

AlreadyRecording == exists(pending_file)

attendee_str(attendees) == IF attendees # <<>> THEN join("|", attendees) ELSE <<>>

MarkerText(meeting_name, meeting_date, attendees) ==
    meeting_name \o <<NL>> \o meeting_date \o <<NL>> \o attendee_str(attendees) \o <<NL>>

StartMarker_early(rc, text) == text

(* the marker after the remote start control returned with outcome rc *)
StartMarker(rc, text) == IF rc = "ok" THEN text ELSE pending_file

StartResult(rc) ==
    IF rc = "ok" THEN "ok" ELSE IF rc = "timeout" THEN "Timeout" ELSE "StartFailed"

start_recording(meeting_name, attendees, now, appear, rc) ==
    IF AlreadyRecording THEN
        /\ call' = Ret("start", "AlreadyRecording", 0, "none")
        /\ UNCHANGED <<pending_file, queue_file, media, nextFile, obsProc, obsRec, procVars, scriptVars>>
    ELSE IF ~ensure_obs_running(appear) THEN
        /\ call' = Ret("start", "LaunchFailed", 0, "none")
        /\ UNCHANGED <<pending_file, queue_file, media, nextFile, obsProc, obsRec, procVars, scriptVars>>
    ELSE
        /\ obsProc' = TRUE
        /\ obsRec' \in ObsAfterStart(rc)
        /\ pending_file' = StartMarker(rc, MarkerText(meeting_name, strftime(now), attendees))
        /\ call' = Ret("start", StartResult(rc), 1, rc)
        /\ UNCHANGED <<queue_file, media, nextFile, procVars, scriptVars>>

----------------------------------------------------------------------------
(* RecordingController.stop_recording *)

NotRecording_never == FALSE

NotRecording == ~exists(pending_file)

(* line 222: the row appended for the meeting read from the marker *)
QueueRow(path, meeting_name, meeting_date, attendees) ==
    join(";", <<path, meeting_name, meeting_date, <<"recorded">>, attendees>>) \o <<NL>>

QueueAppend_truncate(f, row) == row

(* lines 220-222: touch, then open(..., 'a') and write *)
QueueAppend(f, row) == read_text(f) \o row

(* the marker after the remote stop control failed (lines 233-237) *)
StopFailedMarker == pending_file

StopNoFileMarker_kept == pending_file

(* the marker after no media file was found (lines 212-217) *)
StopNoFileMarker == NoFile

stop_recording(rc, here) ==
    IF NotRecording THEN
        /\ call' = Ret("stop", "NotRecording", 0, "none")
        /\ UNCHANGED <<pending_file, queue_file, media, nextFile, obsProc, obsRec, procVars, scriptVars>>
    ELSE
        LET lines == MarkerLines(pending_file) IN
        IF Len(lines) < 2 THEN
            \* lines[1] raises IndexError, which stop_recording does not catch
            /\ call' = Ret("stop", "IndexError", 0, "none")
            /\ UNCHANGED <<pending_file, queue_file, media, nextFile, obsProc, obsRec, procVars, scriptVars>>
        ELSE
            LET meeting_name == lines[1]
                meeting_date == lines[2]
                attendees == IF Len(lines) > 2 THEN lines[3] ELSE <<>>
            IN
            IF rc # "ok" THEN
                /\ pending_file' = StopFailedMarker
                /\ call' = Ret("stop", "StopFailed", 1, rc)
                /\ UNCHANGED <<queue_file, media, nextFile, obsProc, obsRec, procVars, scriptVars>>
            ELSE
                /\ obsProc
                /\ (obsRec /\ here) => nextFile <= MaxFiles
                /\ obsRec' = FALSE
                /\ media' = MediaAfterStop(here)
                /\ nextFile' = NextFileAfterStop(here)
                /\ LET found == latest_recording(media') IN
                   IF found = <<>> THEN
                       /\ pending_file' = StopNoFileMarker
                       /\ call' = Ret("stop", "FileNotFound", 1, rc)
                       /\ UNCHANGED queue_file
                   ELSE
                       /\ NumRows(queue_file) < MaxQueue
                       /\ queue_file' = QueueAppend(queue_file,
                              QueueRow(found, meeting_name, meeting_date, attendees))
                       /\ pending_file' = NoFile
                       /\ call' = Ret("stop", "ok", 1, rc)
                /\ UNCHANGED <<obsProc, procVars, scriptVars>>

----------------------------------------------------------------------------
(* RecordingController.abort_recording *)

AbortFailedMarker_kept == pending_file

(* the marker after the remote stop control failed (lines 407-410) *)
AbortFailedMarker == NoFile

(* the marker after os.remove raised (lines 415-418) *)
AbortErrorMarker == NoFile

abort_recording_enqueue(rc, here, removed) ==
    IF NotRecording THEN
        /\ call' = Ret("abort", "NotRecording", 0, "none")
        /\ UNCHANGED <<pending_file, queue_file, media, nextFile, obsProc, obsRec, procVars, scriptVars>>
    ELSE IF rc # "ok" THEN
        /\ pending_file' = AbortFailedMarker
        /\ call' = Ret("abort", "StopFailed", 1, rc)
        /\ UNCHANGED <<queue_file, media, nextFile, obsProc, obsRec, procVars, scriptVars>>
    ELSE
        /\ obsProc
        /\ (obsRec /\ here) => nextFile <= MaxFiles
        /\ obsRec' = FALSE
        /\ nextFile' = NextFileAfterStop(here)
        /\ media' = MediaAfterStop(here)
        /\ pending_file' = NoFile
        /\ queue_file' = QueueAppend(queue_file,
               QueueRow(latest_recording(media'), <<>>, <<>>, <<>>))
        /\ call' = Ret("abort", "ok", 1, rc)
        /\ UNCHANGED <<obsProc, procVars, scriptVars>>

abort_recording(rc, here, removed) ==
    IF NotRecording THEN
        /\ call' = Ret("abort", "NotRecording", 0, "none")
        /\ UNCHANGED <<pending_file, queue_file, media, nextFile, obsProc, obsRec, procVars, scriptVars>>
    ELSE IF rc # "ok" THEN
        /\ pending_file' = AbortFailedMarker
        /\ call' = Ret("abort", "StopFailed", 1, rc)
        /\ UNCHANGED <<queue_file, media, nextFile, obsProc, obsRec, procVars, scriptVars>>
    ELSE
        /\ obsProc
        /\ (obsRec /\ here) => nextFile <= MaxFiles
        /\ obsRec' = FALSE
        /\ nextFile' = NextFileAfterStop(here)
        /\ LET found == latest_recording(MediaAfterStop(here)) IN
           IF found # <<>> /\ ~removed THEN
               \* os.remove raised: the handler of line 415 runs
               /\ media' = MediaAfterStop(here)
               /\ pending_file' = AbortErrorMarker
               /\ call' = Ret("abort", "AbortError", 1, rc)
           ELSE
               /\ media' = IF found # <<>> THEN RemoveLatest(MediaAfterStop(here))
                           ELSE MediaAfterStop(here)
               /\ pending_file' = NoFile
               /\ call' = Ret("abort", "ok", 1, rc)
        /\ UNCHANGED <<queue_file, obsProc, procVars, scriptVars>>

----------------------------------------------------------------------------
(* RecordingController.discard_recording *)

RecordingIds == {0, 1}

(* a discard that deletes the newest media file and reports success *)
discard_recording_done(recording_id) ==
    /\ media' = IF media = <<>> THEN media ELSE RemoveLatest(media)
    /\ call' = Ret("discard", "ok", 0, "none")
    /\ UNCHANGED <<pending_file, queue_file, nextFile, obsProc, obsRec, procVars, scriptVars>>

discard_recording(recording_id) ==
    /\ call' = Ret("discard", "NotImplemented", 0, "none")
    /\ UNCHANGED <<pending_file, queue_file, media, nextFile, obsProc, obsRec, procVars, scriptVars>>

----------------------------------------------------------------------------
(* RecordingController.get_status *)

(* Python's order of str values, by code point, on the characters the      *)
(* model's texts are made of                                               *)
ord(c) ==
    CASE c = NL -> 10
      [] c = " " -> 32
      [] c = "/rec/1.mkv" -> 471
      [] c = "/rec/2.mkv" -> 472
      [] c = "/rec/3.mkv" -> 473
      [] c = "20260101_1000" -> 501
      [] c = "20260101_1001" -> 502
      [] c = ";" -> 59
      [] c = "b" -> 98
      [] c = "m" -> 109
      [] c = "recorded" -> 114
      [] c = "|" -> 124
      [] OTHER -> 0

RECURSIVE str_lt(_, _)
str_lt(a, b) ==
    IF b = <<>> THEN FALSE
    ELSE IF a = <<>> THEN TRUE
    ELSE IF ord(Head(a)) # ord(Head(b)) THEN ord(Head(a)) < ord(Head(b))
    ELSE str_lt(Tail(a), Tail(b))

(* csv.reader(f, delimiter=';'): one row per line, the empty list for a    *)
(* blank line; no text of the model holds a quote character                *)
csv_reader(text) ==
    LET lines == split(text, NL)
        n == IF lines[Len(lines)] = <<>> THEN Len(lines) - 1 ELSE Len(lines)
    IN  [i \in 1..n |-> IF lines[i] = <<>> THEN <<>> ELSE split(lines[i], ";")]

RowAccepted_five(row) == Len(row) >= 5

(* get_status, line 104 *)
RowAccepted(row) == Len(row) >= 4

(* get_status, lines 105-110 *)
QueueEntry(row) ==
    [path |-> row[1], name |-> row[2], date |-> row[3], status |-> row[4]]

(* list.sort(key=date, reverse=True) places an entry after the entries     *)
(* whose date is not smaller: the sort is stable                           *)
RECURSIVE sort_insert(_, _)
sort_insert(sorted, e) ==
    IF sorted = <<>> THEN <<e>>
    ELSE IF str_lt(Head(sorted).date, e.date) THEN <<e>> \o sorted
    ELSE <<Head(sorted)>> \o sort_insert(Tail(sorted), e)

RECURSIVE sort_date_reverse(_)
sort_date_reverse(entries) ==
    IF entries = <<>> THEN <<>>
    ELSE sort_insert(sort_date_reverse(SubSeq(entries, 1, Len(entries) - 1)),
                     entries[Len(entries)])

(* get_status, lines 99-113 *)
status_queue ==
    IF exists(queue_file)
    THEN LET rows == SelectSeq(csv_reader(read_text(queue_file)), RowAccepted)
         IN  sort_date_reverse([i \in 1..Len(rows) |-> QueueEntry(rows[i])])
    ELSE <<>>

(* get_status, lines 87-96: None is the empty tuple *)
current_meeting ==
    IF exists(pending_file) /\ Len(MarkerLines(pending_file)) >= 2
    THEN <<MarkerLines(pending_file)[1], MarkerLines(pending_file)[2]>>
    ELSE <<>>

get_status ==
    /\ call' = [Ret("status", IF exists(pending_file) THEN "recording" ELSE "idle",
                    0, "none")
                EXCEPT !.current_meeting = current_meeting,
                       !.queue = status_queue]
    /\ UNCHANGED <<pending_file, queue_file, media, nextFile, obsProc, obsRec, procVars, scriptVars>>

----------------------------------------------------------------------------
(* Environment: the user quits the recorder application (an active         *)
(* recording may or may not be saved into the recording directory) or      *)
(* opens it.                                                               *)

ObsQuit(saved) ==
    /\ obsProc
    /\ obsProc' = FALSE
    /\ obsRec' = FALSE
    /\ IF obsRec /\ saved
       THEN /\ nextFile <= MaxFiles
            /\ media' = Append(media, nextFile)
            /\ nextFile' = nextFile + 1
       ELSE UNCHANGED <<media, nextFile>>
    /\ call' = NoCall
    /\ UNCHANGED <<pending_file, queue_file, procVars, scriptVars>>

ObsLaunch ==
    /\ ~obsProc
    /\ obsProc' = TRUE
    /\ call' = NoCall
    /\ UNCHANGED <<pending_file, queue_file, media, nextFile, obsRec, procVars, scriptVars>>

----------------------------------------------------------------------------
(* Background processing: process_recordings runs on a request thread,     *)
(* _run_processing on the thread it starts.  The job spawned by worker w   *)
(* has process id w.                                                       *)
(*   workers[w]: "started"  thread runs, Popen not yet called              *)
(*               "spawned"  Popen returned, pid not yet stored (line 275)  *)
(*               "waiting"  pid stored, blocked in process.wait()          *)
(*               "reaped"   wait() returned or an exception was raised     *)
(*               "done"     the finally block has run                      *)
(*   jobs[w]:    "none", "running", "exited"                               *)

(* os.kill(pid, 0) succeeds while the process exists, that is, until       *)
(* process.wait() has reaped it                                            *)
ProcessExists(pid) == jobs[pid] # "none" /\ workers[pid] \in {"spawned", "waiting"}

(* the probe left out: a stored pid alone counts as a running job *)
is_processing_running_unprobed == processing_pid # None

(* RecordingController._is_processing_running, under _processing_lock *)
is_processing_running == processing_pid # None /\ ProcessExists(processing_pid)

(* process_recordings, lines 321-326: the check *)
process_check(r) ==
    /\ req[r] = "idle"
    /\ IF is_processing_running THEN
           /\ call' = Ret("process", "AlreadyProcessing", 0, "none")
           /\ UNCHANGED <<processing_pid, req>>
       ELSE
           /\ processing_pid' = None
           /\ req' = [req EXCEPT ![r] = "checked"]
           /\ call' = NoCall
    /\ UNCHANGED <<scriptVars, recVars, workers, jobs>>

(* process_recordings, lines 328-347: thread.start(), sleep, return *)
process_spawn(r) ==
    /\ req[r] = "checked"
    /\ Len(workers) < MaxJobs
    /\ workers' = Append(workers, "started")
    /\ jobs' = Append(jobs, "none")
    /\ req' = [req EXCEPT ![r] = "idle"]
    /\ call' = Ret("process", "ok", 0, "none")
    /\ UNCHANGED <<scriptVars, recVars, processing_pid>>

(* _run_processing, lines 261-273: open the log and Popen run.sh; either   *)
(* may raise, which leads to the finally block                             *)
run_popen(w, spawned) ==
    /\ workers[w] = "started"
    /\ IF spawned
       THEN /\ workers' = [workers EXCEPT ![w] = "spawned"]
            /\ jobs' = [jobs EXCEPT ![w] = "running"]
       ELSE /\ workers' = [workers EXCEPT ![w] = "reaped"]
            /\ UNCHANGED jobs
    /\ call' = NoCall
    /\ UNCHANGED <<scriptVars, recVars, processing_pid, req>>

(* _run_processing, lines 275-276 *)
run_set_pid(w) ==
    /\ workers[w] = "spawned"
    /\ processing_pid' = w
    /\ workers' = [workers EXCEPT ![w] = "waiting"]
    /\ call' = NoCall
    /\ UNCHANGED <<scriptVars, recVars, req, jobs>>

(* the external job terminates, with any exit code *)
job_exit(w) ==
    /\ jobs[w] = "running"
    /\ jobs' = [jobs EXCEPT ![w] = "exited"]
    /\ call' = NoCall
    /\ UNCHANGED <<scriptVars, recVars, processing_pid, req, workers>>

(* a monitoring thread that removes the marker once the job has finished *)
run_wait_unlink(w) ==
    /\ workers[w] = "waiting"
    /\ jobs[w] = "exited"
    /\ workers' = [workers EXCEPT ![w] = "reaped"]
    /\ pending_file' = NoFile
    /\ call' = NoCall
    /\ UNCHANGED <<scriptVars, queue_file, media, nextFile, obsProc, obsRec,
                   processing_pid, req, jobs>>

(* _run_processing, line 279: process.wait() returns *)
run_wait(w) ==
    /\ workers[w] = "waiting"
    /\ jobs[w] = "exited"
    /\ workers' = [workers EXCEPT ![w] = "reaped"]
    /\ call' = NoCall
    /\ UNCHANGED <<scriptVars, recVars, processing_pid, req, jobs>>

(* the finally block without the reset of the tracked pid *)
run_finally_keep(w) ==
    /\ workers[w] = "reaped"
    /\ workers' = [workers EXCEPT ![w] = "done"]
    /\ call' = NoCall
    /\ UNCHANGED <<scriptVars, recVars, processing_pid, req, jobs>>

(* _run_processing, lines 292-294 *)
run_finally(w) ==
    /\ workers[w] = "reaped"
    /\ processing_pid' = None
    /\ workers' = [workers EXCEPT ![w] = "done"]
    /\ call' = NoCall
    /\ UNCHANGED <<scriptVars, recVars, req, jobs>>

----------------------------------------------------------------------------
(* scripts/filter_hallucinations.py                                        *)
(*                                                                         *)
(* A caption is a record [index, start, end, content]; start and end are   *)
(* milliseconds.  Caption text is a sequence of words, spaces, newlines    *)
(* and punctuation marks, each word one element.                           *)

(* str.lower *)
lower(c) ==
    CASE c = "Thank" -> "thank"
      [] c = "Hi" -> "hi"
      [] c = "Let's" -> "let's"
      [] OTHER -> c

(* len() of one element of a text *)
strlen(c) ==
    CASE c \in {" ", NL, "."} -> 1
      [] c \in {"Hi", "hi", "no", "ok"} -> 2
      [] c \in {"yes", "you", "the", "for", "and"} -> 3
      [] c \in {"okay", "very", "much", "like"} -> 4
      [] c \in {"Thank", "thank", "there", "Let's", "let's", "begin", "don't"} -> 5
      [] c \in {"thanks", "review", "forget"} -> 6
      [] c = "watching" -> 8
      [] c = "subscribe" -> 9
      [] OTHER -> 1

RECURSIVE len(_)
len(text) == IF text = <<>> THEN 0 ELSE strlen(Head(text)) + len(Tail(text))

(* len(text.split()): the number of runs of non-whitespace *)
words(text) ==
    Cardinality({i \in 1..Len(text) :
                    ~IsSpace(text[i]) /\ (i = 1 \/ IsSpace(text[i - 1]))})

(* the phrases of hallucination_patterns, lines 20-26, each followed by    *)
(* an optional period                                                      *)
hallucination_phrases ==
    { <<"thank", " ", "you">>,
      <<"thanks">>,
      <<"thank", " ", "you", " ", "very", " ", "much">>,
      <<"thanks", " ", "for", " ", "watching">>,
      <<"don't", " ", "forget", " ", "to", " ", "like", " ", "and", " ", "subscribe">>,
      <<"subscribe">>,
      <<"like", " ", "and", " ", "subscribe">> }

(* lines 32-34: re.match of some pattern; the last two patterns are        *)
(* "periods only" and "empty"                                              *)
matches_pattern(text) ==
    \/ \E p \in hallucination_phrases : text = p \/ text = p \o <<".">>
    \/ text # <<>> /\ \A i \in 1..Len(text) : text[i] = "."
    \/ text = <<>>

(* previous_subtitle = None *)
NoSubtitle == [index |-> 0, start |-> 0, end |-> 0, content |-> <<"<none>">>]

(* a gap rule that also fires on a gap of exactly long_gap seconds *)
isolated_after_gap_inclusive(subtitle, previous_subtitle, text) ==
    /\ previous_subtitle # NoSubtitle
    /\ subtitle.start - previous_subtitle.end >= long_gap * 1000
    /\ words(text) <= few_words

(* lines 37-40 *)
isolated_after_gap(subtitle, previous_subtitle, text) ==
    /\ previous_subtitle # NoSubtitle
    /\ subtitle.start - previous_subtitle.end > long_gap * 1000
    /\ words(text) <= few_words

(* line 43 *)
short_filler(text) ==
    /\ len(text) < short_text
    /\ text \in { <<"thank", " ", "you">>, <<"thanks">>, <<"yes">>, <<"no">>,
                  <<"okay">>, <<"ok">> }

is_hallucination(subtitle, previous_subtitle) ==
    LET stripped == strip(subtitle.content)
        text == [i \in 1..Len(stripped) |-> lower(stripped[i])]
    IN  \/ matches_pattern(text)
        \/ isolated_after_gap(subtitle, previous_subtitle, text)
        \/ short_filler(text)

(* a loop that remembers the last caption it saw, kept or not *)
next_previous_seen(previous_subtitle, subtitle, kept) == subtitle

(* lines 72, 82: previous_subtitle is the last caption that was kept *)
next_previous(previous_subtitle, subtitle, kept) ==
    IF kept THEN subtitle ELSE previous_subtitle

(* a kept caption that keeps the index of the input file *)
reindexed_not(subtitle, filtered_subtitles) == subtitle

(* line 80 *)
reindexed(subtitle, filtered_subtitles) ==
    [subtitle EXCEPT !.index = Len(filtered_subtitles) + 1]

(* filter_srt_file, lines 70-82: the loop from caption i on *)
RECURSIVE filter_loop(_, _, _, _, _)
filter_loop(subs, i, filtered_subtitles, removed_count, previous_subtitle) ==
    IF i > Len(subs)
    THEN [filtered_subtitles |-> filtered_subtitles, removed_count |-> removed_count]
    ELSE IF is_hallucination(subs[i], previous_subtitle)
    THEN filter_loop(subs, i + 1, filtered_subtitles, removed_count + 1,
                     next_previous(previous_subtitle, subs[i], FALSE))
    ELSE LET subtitle == reindexed(subs[i], filtered_subtitles)
         IN  filter_loop(subs, i + 1, Append(filtered_subtitles, subtitle),
                         removed_count,
                         next_previous(previous_subtitle, subtitle, TRUE))

(* the file the next run reads: the input file first, then the file the    *)
(* run before wrote                                                        *)
filter_input ==
    IF filter_out.runs = 0 THEN subtitles ELSE filter_out.filtered_subtitles

(* filter_srt_file; the captions of the model start before they end and    *)
(* are in start order, so that srt.compose writes them as they are         *)
filter_srt_file ==
    /\ filter_out.runs < MaxRuns
    /\ LET done == filter_loop(filter_input, 1, <<>>, 0, NoSubtitle)
       IN  filter_out' = [runs |-> filter_out.runs + 1,
                          filtered_subtitles |-> done.filtered_subtitles,
                          removed_count |-> done.removed_count]
    /\ call' = NoCall
    /\ UNCHANGED <<recVars, procVars, subtitles, me_subs, other_subs, transcript,
                   diarVars>>

----------------------------------------------------------------------------
(* scripts/interleave.py                                                   *)

IsDigit(c) == c \in {"0", "1", "2", "3", "4", "5", "6", "7", "8", "9"}

(* the first position from i on that holds no digit *)
RECURSIVE digits_end(_, _)
digits_end(s, i) ==
    IF i <= Len(s) /\ IsDigit(s[i]) THEN digits_end(s, i + 1) ELSE i

(* the first position from i on that holds no whitespace *)
RECURSIVE spaces_end(_, _)
spaces_end(s, i) ==
    IF i <= Len(s) /\ IsSpace(s[i]) THEN spaces_end(s, i + 1) ELSE i

(* the first position from i on that holds c, or Len(s) + 1 *)
RECURSIVE find(_, _, _)
find(s, c, i) ==
    IF i <= Len(s) /\ s[i] # c THEN find(s, c, i + 1) ELSE i

NoMatch == [matched |-> FALSE, group1 |-> <<>>, group2 |-> <<>>]

(* a pattern that takes whatever stands between the brackets as the label *)
speaker_match_any(s) ==
    LET d == find(s, "]", 2)
        w == spaces_end(s, d + 1)
    IN  IF Len(s) >= 3 /\ s[1] = "[" /\ d > 2 /\ d <= Len(s) /\ w > d + 1
        THEN [matched |-> TRUE,
              group1 |-> SubSeq(s, 2, d - 1),
              group2 |-> SubSeq(s, w, find(s, NL, w) - 1)]
        ELSE NoMatch

(* line 64, re.match: an opening bracket, group 1 = "Speaker", one space   *)
(* and one or more digits, a closing bracket, one or more whitespace       *)
(* characters, group 2 = any characters but newline.  Group 2 ends at the  *)
(* first newline after the whitespace.                                     *)
speaker_match(s) ==
    LET d == digits_end(s, 4)
        w == spaces_end(s, d + 1)
    IN  IF /\ Len(s) >= 5
           /\ s[1] = "[" /\ s[2] = "Speaker" /\ s[3] = " "
           /\ d > 4 /\ d <= Len(s) /\ s[d] = "]"
           /\ w > d + 1
        THEN [matched |-> TRUE,
              group1 |-> SubSeq(s, 2, d - 1),
              group2 |-> SubSeq(s, w, find(s, NL, w) - 1)]
        ELSE NoMatch

(* lines 55-56 *)
label_me(sub) == [start |-> sub.start, speaker |-> <<"Me">>, content |-> sub.content]

(* lines 62-72 *)
label_other(sub) ==
    LET m == speaker_match(strip(sub.content))
    IN  IF m.matched
        THEN [start |-> sub.start, speaker |-> m.group1, content |-> m.group2]
        ELSE [start |-> sub.start, speaker |-> <<"Others">>, content |-> sub.content]

labelled_me(subs) == [i \in 1..Len(subs) |-> label_me(subs[i])]

labelled_others(subs) == [i \in 1..Len(subs) |-> label_other(subs[i])]

(* an insertion that puts a caption in front of those with the same start *)
RECURSIVE sorted_insert_before(_, _)
sorted_insert_before(done, e) ==
    IF done = <<>> THEN <<e>>
    ELSE IF e.start <= Head(done).start THEN <<e>> \o done
    ELSE <<Head(done)>> \o sorted_insert_before(Tail(done), e)

(* sorted() is stable: a caption goes behind those that start no later *)
RECURSIVE sorted_insert(_, _)
sorted_insert(done, e) ==
    IF done = <<>> THEN <<e>>
    ELSE IF e.start < Head(done).start THEN <<e>> \o done
    ELSE <<Head(done)>> \o sorted_insert(Tail(done), e)

(* the concatenation left as it is *)
sorted_not(subs) == subs

(* line 84: sorted(..., key=lambda x: x.start) *)
RECURSIVE sorted(_)
sorted(subs) ==
    IF subs = <<>> THEN <<>>
    ELSE sorted_insert(sorted(SubSeq(subs, 1, Len(subs) - 1)), subs[Len(subs)])

DigitChars == <<"0", "1", "2", "3", "4", "5", "6", "7", "8", "9">>

(* "%d" *)
RECURSIVE decimal(_)
decimal(n) ==
    IF n < 10 THEN <<DigitChars[n + 1]>>
    ELSE decimal(n \div 10) \o <<DigitChars[(n % 10) + 1]>>

(* "%02d", "%06d" *)
RECURSIVE zero_padded(_, _)
zero_padded(n, width) ==
    IF Len(decimal(n)) >= width THEN decimal(n)
    ELSE IF width = 1 THEN decimal(n)
    ELSE zero_padded(n \div 10, width - 1) \o <<DigitChars[(n % 10) + 1]>>

(* str(timedelta) of ms milliseconds: "[D day[s], ]H:MM:SS[.ffffff]" *)
timedelta_str(ms) ==
    LET days == ms \div 86400000
        seconds == (ms % 86400000) \div 1000
        microseconds == (ms % 1000) * 1000
    IN  (IF days # 0
         THEN decimal(days) \o <<" ", IF days = 1 THEN "day" ELSE "days", ",", " ">>
         ELSE <<>>)
        \o decimal(seconds \div 3600)
        \o <<":">> \o zero_padded((seconds \div 60) % 60, 2)
        \o <<":">> \o zero_padded(seconds % 60, 2)
        \o (IF microseconds # 0
            THEN <<".">> \o zero_padded(microseconds, 6) ELSE <<>>)

(* line 88 *)
timestamp(start) == split(timedelta_str(start), ".")[1]

(* line 89 *)
printed_line(sub) ==
    <<"[">> \o timestamp(sub.start) \o <<"]", " ">> \o sub.speaker
        \o <<":", " ">> \o strip(sub.content)

(* lines 84-89 for a list of labelled captions *)
merged(all) ==
    LET all_subs == sorted(all)
    IN  [i \in 1..Len(all_subs) |->
            [start |-> all_subs[i].start, speaker |-> all_subs[i].speaker,
             content |-> all_subs[i].content, text |-> printed_line(all_subs[i])]]

(* str.replace('|', ', ') *)
RECURSIVE replace_pipes(_)
replace_pipes(text) ==
    IF text = <<>> THEN <<>>
    ELSE (IF Head(text) = "|" THEN <<",", " ">> ELSE <<Head(text)>>)
             \o replace_pipes(Tail(text))

(* lines 18-22: strptime("%Y%m%d_%H%M") and strftime('%Y-%m-%d %H:%M'), *)
(* the text itself when it is no such date                                 *)
header_date(meeting_date) ==
    IF meeting_date = strftime(1) THEN <<"2026-01-01", " ", "10:00">>
    ELSE IF meeting_date = strftime(2) THEN <<"2026-01-01", " ", "10:01">>
    ELSE meeting_date

(* print_header: the lines it prints *)
print_header(args) ==
    LET printed ==
            (IF args.meeting_name # <<>>
             THEN << <<"Meeting:", " ">> \o args.meeting_name >> ELSE <<>>)
            \o (IF args.meeting_date # <<>>
                THEN << <<"Date:", " ">> \o header_date(args.meeting_date) >>
                ELSE <<>>)
            \o (IF args.attendees # <<>>
                THEN << <<"Attendees:", " ">> \o replace_pipes(args.attendees) >>
                ELSE <<>>)
    IN  IF printed # <<>> THEN printed \o << <<>>, <<"---">>, <<>> >> ELSE <<>>

(* a header that is printed before the files are read *)
header_before_read(args) == print_header(args)

(* the header lines on standard output when an except block of lines      *)
(* 74-79 is reached: print_header is called at line 82                     *)
header_at_failure(args) == <<>>

(* lines 52-79: the outcome of reading the two files; the second file is  *)
(* opened only when the first was read                                     *)
read_error(me_read, others_read) ==
    IF me_read # "ok" THEN me_read
    ELSE IF others_read # "ok" THEN others_read
    ELSE "ok"

(* main.  me_read and others_read say whether the file is there and        *)
(* parses ("ok"), is "missing" or is "malformed"; the messages of lines 75 *)
(* and 78 are printed to standard output                                   *)
interleave(me_read, others_read, args) ==
    /\ transcript.exit = "none"
    /\ transcript' =
           IF read_error(me_read, others_read) = "ok"
           THEN [printed |-> TRUE,
                 header |-> print_header(args),
                 lines |-> merged(labelled_me(me_subs)
                                  \o labelled_others(other_subs)),
                 error |-> <<>>,
                 exit |-> "0"]
           ELSE [printed |-> FALSE,
                 header |-> header_at_failure(args),
                 lines |-> <<>>,
                 error |-> IF read_error(me_read, others_read) = "missing"
                           THEN <<"Error:", " ", "not found.">>
                           ELSE <<"Error parsing SRT files:">>,
                 exit |-> "1"]
    /\ call' = NoCall
    /\ UNCHANGED <<recVars, procVars, subtitles, filter_out, me_subs, other_subs,
                   diarVars>>

----------------------------------------------------------------------------
(* scripts/speaker_diarization.py                                          *)
(*                                                                         *)
(* A speaker segment is a record [start, end, speaker], times in           *)
(* milliseconds, speaker a text such as SPEAKER_00.  diarize.pc is the     *)
(* position inside diarize_audio:                                          *)
(*   "start", "loaded", "inferred", "assigning", "done", or one of         *)
(*   "load_failed", "infer_failed", "read_failed", "write_failed"          *)

max2(a, b) == IF a >= b THEN a ELSE b

min2(a, b) == IF a <= b THEN a ELSE b

(* lines 73-75 *)
overlap_duration(subtitle, segment) ==
    max2(0, min2(subtitle.end, segment.end) - max2(subtitle.start, segment.start))

(* a comparison that lets a later segment with the same overlap win *)
replaces_best_or_equal(overlap, best_overlap) == overlap >= best_overlap

(* line 77 *)
replaces_best(overlap, best_overlap) == overlap > best_overlap

(* lines 68-69: best_speaker = None is the empty text *)
NoBest == [best_overlap |-> 0, best_speaker |-> <<>>]

(* lines 71-79: the loop from segment k on *)
RECURSIVE best_segment(_, _, _, _)
best_segment(subtitle, segments, k, best) ==
    IF k > Len(segments) THEN best
    ELSE IF replaces_best(overlap_duration(subtitle, segments[k]), best.best_overlap)
    THEN best_segment(subtitle, segments, k + 1,
                      [best_overlap |-> overlap_duration(subtitle, segments[k]),
                       best_speaker |-> segments[k].speaker])
    ELSE best_segment(subtitle, segments, k + 1, best)

(* lines 84-85: "Speaker " and what follows the first underscore *)
speaker_label(best_speaker) == <<"Speaker", " ">> \o split(best_speaker, "_")[2]

(* lines 63-86 for one caption *)
with_speaker(subtitle, segments) ==
    LET best == best_segment(subtitle, segments, 1, NoBest)
    IN  IF best.best_speaker # <<>>
        THEN [subtitle EXCEPT !.content =
                 <<"[">> \o speaker_label(best.best_speaker) \o <<"]", " ">>
                     \o subtitle.content]
        ELSE subtitle

(* lines 20-29: Pipeline.from_pretrained returns or raises *)
diar_load(ok) ==
    /\ diarize.pc = "start"
    /\ diarize' = IF ok THEN [diarize EXCEPT !.pc = "loaded"]
                  ELSE [diarize EXCEPT !.pc = "load_failed", !.result = "False"]
    /\ call' = NoCall
    /\ UNCHANGED <<recVars, procVars, subtitles, filter_out, me_subs, other_subs,
                   transcript, speaker_segments, captions>>

(* lines 31-52: the pipeline runs on the audio and returns its turns, or   *)
(* raises                                                                  *)
diar_infer(ok) ==
    /\ diarize.pc = "loaded"
    /\ diarize' = IF ok THEN [diarize EXCEPT !.pc = "inferred"]
                  ELSE [diarize EXCEPT !.pc = "infer_failed", !.result = "False"]
    /\ call' = NoCall
    /\ UNCHANGED <<recVars, procVars, subtitles, filter_out, me_subs, other_subs,
                   transcript, speaker_segments, captions>>

(* lines 54-60: the caption file is read and parsed, or that raises *)
diar_read(ok) ==
    /\ diarize.pc = "inferred"
    /\ diarize' = IF ok
                  THEN [diarize EXCEPT !.pc = "assigning", !.subtitles = captions,
                                       !.i = 1]
                  ELSE [diarize EXCEPT !.pc = "read_failed", !.result = "False"]
    /\ call' = NoCall
    /\ UNCHANGED <<recVars, procVars, subtitles, filter_out, me_subs, other_subs,
                   transcript, speaker_segments, captions>>

(* lines 63-86: one turn of the loop over the captions *)
diar_assign ==
    /\ diarize.pc = "assigning"
    /\ diarize.i <= Len(diarize.subtitles)
    /\ diarize' = [diarize EXCEPT
                      !.subtitles[diarize.i] =
                          with_speaker(diarize.subtitles[diarize.i], speaker_segments),
                      !.i = diarize.i + 1]
    /\ call' = NoCall
    /\ UNCHANGED <<recVars, procVars, subtitles, filter_out, me_subs, other_subs,
                   transcript, speaker_segments, captions>>

(* a write that does not wait for the loop to end *)
write_ready_early == TRUE

(* line 88 is reached when the loop of line 63 has ended *)
write_ready == diarize.i > Len(diarize.subtitles)

(* lines 88-96: open(output_file, 'w') and write; when that raises the     *)
(* file is either not created or left empty.  The captions of the model    *)
(* are numbered from 1 in start order, so that srt.compose writes them as  *)
(* they are.                                                               *)
diar_write(ok, created) ==
    /\ diarize.pc = "assigning"
    /\ write_ready
    /\ diarize' = IF ok
                  THEN [diarize EXCEPT !.pc = "done", !.output = diarize.subtitles,
                                       !.result = "True"]
                  ELSE [diarize EXCEPT !.pc = "write_failed",
                                       !.output = IF created THEN <<>> ELSE NoOutput,
                                       !.result = "False"]
    /\ call' = NoCall
    /\ UNCHANGED <<recVars, procVars, subtitles, filter_out, me_subs, other_subs,
                   transcript, speaker_segments, captions>>

----------------------------------------------------------------------------

Start == \E meeting_name \in Names, attendees \in AttendeeLists, now \in Clock,
            rc \in RemoteOutcomes :
            \E appear \in (IF obsProc THEN {1} ELSE LaunchTimes) :
                start_recording(meeting_name, attendees, now, appear, rc)

Stop == \E rc \in {"ok", "fail"}, here \in BOOLEAN : stop_recording(rc, here)

Abort == \E rc \in {"ok", "fail"}, here \in BOOLEAN, removed \in BOOLEAN :
            abort_recording(rc, here, removed)

Discard == \E recording_id \in RecordingIds : discard_recording(recording_id)

Quit == \E saved \in BOOLEAN : ObsQuit(saved)

ProcessCheck == \E r \in ReqThreads : process_check(r)

ProcessSpawn == \E r \in ReqThreads : process_spawn(r)

RunPopen == \E w \in 1..Len(workers), spawned \in BOOLEAN : run_popen(w, spawned)

RunSetPid == \E w \in 1..Len(workers) : run_set_pid(w)

JobExit == \E w \in 1..Len(workers) : job_exit(w)

RunWait == \E w \in 1..Len(workers) : run_wait(w)

RunFinally == \E w \in 1..Len(workers) : run_finally(w)

NextRec ==
    \/ Start
    \/ Stop
    \/ Abort
    \/ Discard
    \/ get_status
    \/ Quit
    \/ ObsLaunch

NextProc ==
    \/ ProcessCheck
    \/ ProcessSpawn
    \/ RunPopen
    \/ RunSetPid
    \/ JobExit
    \/ RunWait
    \/ RunFinally

Next == NextRec \/ NextProc

(* the whole program *)
Spec == Init /\ [][Next]_vars

(* the recording handlers alone, no processing requested *)
SpecRec == Init /\ [][NextRec]_vars

(* the processing handlers alone, no recording requested *)
SpecProc == Init /\ [][NextProc]_vars

(* get_status applied to the flat files as any writer may have left them:  *)
(* lines of the queue log with three, four or five fields                  *)
StatusRows ==
    UNION { { QueueRow(MediaPath(1), <<"m">>, strftime(t), <<>>),
              join(";", <<MediaPath(1), <<"m">>, strftime(t), <<"recorded">> >>)
                  \o <<NL>> } : t \in {1, 2} }
    \cup { join(";", <<MediaPath(1), <<"m">>, strftime(1)>>) \o <<NL>> }

RECURSIVE QueueTexts(_)
QueueTexts(n) ==
    IF n = 0 THEN { <<>> }
    ELSE LET shorter == QueueTexts(n - 1)
         IN  shorter \cup { t \o r : t \in shorter, r \in StatusRows }

InitStatus ==
    /\ pending_file \in {NoFile} \cup
           { MarkerText(n, strftime(1), <<>>) : n \in Names }
    /\ queue_file \in {NoFile} \cup QueueTexts(MaxRows)
    /\ media = <<>>
    /\ nextFile = 1
    /\ obsProc = FALSE
    /\ obsRec = FALSE
    /\ call = NoCall
    /\ processing_pid = None
    /\ req = [r \in ReqThreads |-> "idle"]
    /\ workers = <<>>
    /\ jobs = <<>>
    /\ ScriptsIdle

NextStatus == get_status

SpecStatus == InitStatus /\ [][NextStatus]_vars

(* filter_hallucinations.py applied to a file of captions, then to the     *)
(* file it wrote.  Inputs: up to MaxSubtitles captions in start order, as  *)
(* a transcriber writes them, numbered from 1.                             *)
FilterSpans == { <<0, 1000>>, <<10000, 11000>>, <<21000, 22000>>, <<22000, 23000>> }

FilterContents ==
    { <<"Thank", " ", "you", ".">>,
      <<"yes">>,
      <<"Hi", " ", "there">>,
      <<"Let's", " ", "begin", " ", "the", " ", "review">> }

SubtitleFiles ==
    UNION { { [i \in 1..n |-> [index |-> i, start |-> sp[i][1], end |-> sp[i][2],
                               content |-> ct[i]]] :
                sp \in { f \in [1..n -> FilterSpans] :
                            \A i \in 1..(n - 1) : f[i][1] <= f[i + 1][1] },
                ct \in [1..n -> FilterContents] } : n \in 0..MaxSubtitles }

InitFilter ==
    /\ pending_file = NoFile
    /\ queue_file = NoFile
    /\ media = <<>>
    /\ nextFile = 1
    /\ obsProc = FALSE
    /\ obsRec = FALSE
    /\ call = NoCall
    /\ processing_pid = None
    /\ req = [r \in ReqThreads |-> "idle"]
    /\ workers = <<>>
    /\ jobs = <<>>
    /\ subtitles \in SubtitleFiles
    /\ filter_out = NotRun
    /\ me_subs = <<>>
    /\ other_subs = <<>>
    /\ transcript = NotPrinted
    /\ DiarizeIdle

NextFilter == filter_srt_file

SpecFilter == InitFilter /\ [][NextFilter]_vars

(* interleave.py applied to two caption files of up to MaxSubs captions    *)
(* each, in any order                                                      *)
MergeStarts == {0, 1999}

MeContents == { <<"Hi">> }

OtherContents ==
    { <<"[", "Speaker", " ", "1", "]", " ", "Hello">>,
      <<"Hello">>,
      <<"[", "x", "]", " ", "hi">>,
      <<"[", "Speaker", " ", "1", "2", "]", " ", "Hello", NL, "world">> }

CaptionFiles(contents) ==
    UNION { { [i \in 1..n |-> [index |-> i, start |-> st[i], end |-> st[i] + 1000,
                               content |-> ct[i]]] :
                st \in [1..n -> MergeStarts], ct \in [1..n -> contents] } :
            n \in 0..MaxSubs }

InitMerge ==
    /\ pending_file = NoFile
    /\ queue_file = NoFile
    /\ media = <<>>
    /\ nextFile = 1
    /\ obsProc = FALSE
    /\ obsRec = FALSE
    /\ call = NoCall
    /\ processing_pid = None
    /\ req = [r \in ReqThreads |-> "idle"]
    /\ workers = <<>>
    /\ jobs = <<>>
    /\ subtitles = <<>>
    /\ filter_out = NotRun
    /\ me_subs \in CaptionFiles(MeContents)
    /\ other_subs \in CaptionFiles(OtherContents)
    /\ transcript = NotPrinted
    /\ DiarizeIdle

ReadOutcomes == {"ok", "missing", "malformed"}

(* --meeting-name, --meeting-date, --attendees: the defaults, or a meeting *)
HeaderArgs ==
    { [meeting_name |-> <<>>, meeting_date |-> <<>>, attendees |-> <<>>],
      [meeting_name |-> <<"m">>, meeting_date |-> strftime(1),
       attendees |-> <<"a", "|", "b">>] }

Interleave == \E me_read \in ReadOutcomes, others_read \in ReadOutcomes,
                 args \in HeaderArgs :
                 interleave(me_read, others_read, args)

NextMerge == Interleave

SpecMerge == InitMerge /\ [][NextMerge]_vars

(* speaker_diarization.py applied to up to MaxSegments turns, in any       *)
(* order, and a file of up to MaxCaptions captions in start order          *)
SegmentSpans == { <<0, 12000>>, <<12000, 25000>>, <<20000, 30000>> }

Speakers == { <<"SPEAKER", "_", "0", "0">>, <<"SPEAKER", "_", "0", "1">> }

SegmentLists ==
    UNION { { [k \in 1..n |-> [start |-> sp[k][1], end |-> sp[k][2],
                               speaker |-> who[k]]] :
                sp \in [1..n -> SegmentSpans], who \in [1..n -> Speakers] } :
            n \in 0..MaxSegments }

CaptionSpans == { <<4000, 20000>>, <<10000, 20000>> }

DiarCaptionFiles ==
    UNION { { [i \in 1..n |-> [index |-> i, start |-> sp[i][1], end |-> sp[i][2],
                               content |-> <<"Hello">>]] :
                sp \in { f \in [1..n -> CaptionSpans] :
                            \A i \in 1..(n - 1) : f[i][1] <= f[i + 1][1] } } :
            n \in 0..MaxCaptions }

InitDiarize ==
    /\ pending_file = NoFile
    /\ queue_file = NoFile
    /\ media = <<>>
    /\ nextFile = 1
    /\ obsProc = FALSE
    /\ obsRec = FALSE
    /\ call = NoCall
    /\ processing_pid = None
    /\ req = [r \in ReqThreads |-> "idle"]
    /\ workers = <<>>
    /\ jobs = <<>>
    /\ subtitles = <<>>
    /\ filter_out = NotRun
    /\ me_subs = <<>>
    /\ other_subs = <<>>
    /\ transcript = NotPrinted
    /\ speaker_segments \in SegmentLists
    /\ captions \in DiarCaptionFiles
    /\ diarize = NotDiarized

Load == \E ok \in BOOLEAN : diar_load(ok)

Infer == \E ok \in BOOLEAN : diar_infer(ok)

ReadCaptions == \E ok \in BOOLEAN : diar_read(ok)

Write == \E ok \in BOOLEAN, created \in BOOLEAN : diar_write(ok, created)

NextDiarize ==
    \/ Load
    \/ Infer
    \/ ReadCaptions
    \/ diar_assign
    \/ Write

SpecDiarize == InitDiarize /\ [][NextDiarize]_vars

(* the processing handlers with the worker threads scheduled: a thread    *)
(* started at lines 332-337 keeps running until _run_processing returns;   *)
(* nothing makes the external job terminate                                *)
SpecProcFair ==
    /\ SpecProc
    /\ WF_vars(RunPopen)
    /\ WF_vars(RunSetPid)
    /\ WF_vars(RunWait)
    /\ WF_vars(RunFinally)

(* a meeting carried through the flat files: started with a name the      *)
(* facade accepts (any non-empty text: a plain one, or one holding the row *)
(* delimiter, the attendee delimiter or a newline), stopped, and listed    *)
RoundTripNames ==
    { <<"m">>, <<"a", ";", "b">>, <<"a", "|", "b">>, <<"a", NL, "b">> }

StartNamed == \E meeting_name \in RoundTripNames, attendees \in AttendeeLists,
                 now \in Clock :
                 start_recording(meeting_name, attendees, now, 1, "ok")

StopSaved == \E here \in BOOLEAN : stop_recording("ok", here)

NextRoundTrip ==
    \/ StartNamed
    \/ StopSaved
    \/ get_status

SpecRoundTrip == Init /\ [][NextRoundTrip]_vars

(* the recording handlers and the processing handlers side by side: one   *)
(* meeting name, a recorder that writes into the recording directory, one  *)
(* request thread for process() and up to IndepJobs jobs                   *)
StartOne == \E rc \in {"ok", "fail"} : start_recording(<<"m">>, <<>>, 1, 1, rc)

StopOne == \E rc \in {"ok", "fail"} : stop_recording(rc, TRUE)

AbortOne == \E rc \in {"ok", "fail"} : abort_recording(rc, TRUE, TRUE)

ProcessOne == process_check(1)

SpawnOne == Len(workers) < IndepJobs /\ process_spawn(1)

NextIndep ==
    \/ StartOne
    \/ StopOne
    \/ AbortOne
    \/ Discard
    \/ ProcessOne
    \/ SpawnOne
    \/ RunPopen
    \/ RunSetPid
    \/ JobExit
    \/ RunWait
    \/ RunFinally

SpecIndep == Init /\ [][NextIndep]_vars

----------------------------------------------------------------------------
(* Properties *)

(* a handler call returns in this step *)
Called(op) == call'.op = op

IsPrefix(s, t) == Len(s) <= Len(t) /\ SubSeq(t, 1, Len(s)) = s

(* C1: start() while a marker exists fails with AlreadyRecording, does not *)
(* invoke the recorder and leaves the marker's content unchanged; a marker *)
(* that stays in place is never rewritten.                                 *)
C1_StartWhilePending ==
    [][ /\ (Called("start") /\ exists(pending_file)) =>
              /\ call'.result = "AlreadyRecording"
              /\ call'.remote = 0
              /\ pending_file' = pending_file
              /\ obsRec' = obsRec
        /\ (exists(pending_file) /\ exists(pending_file')) => pending_file' = pending_file
      ]_vars

C1_Witness ==
    call.op = "start" /\ call.result = "AlreadyRecording" /\ exists(pending_file)

(* C2: at most one external processing job runs at any time.               *)
RunningJobs == {w \in 1..Len(jobs) : jobs[w] = "running"}

C2_AtMostOneJob == Cardinality(RunningJobs) <= 1

(* C3: abort() with a marker in place ends with the marker absent, whether *)
(* the remote stop or the deletion of the media file succeeds or fails.    *)
C3_AbortClearsMarker ==
    [][ (Called("abort") /\ exists(pending_file)) =>
            /\ ~exists(pending_file')
            /\ call'.remote = 1
      ]_vars

C3_Witness ==
    call.op = "abort" /\ call.rc = "fail" /\ ~exists(pending_file)

(* C4: the queue log is append-only: in every step its previous contents   *)
(* are a prefix of its new contents, and the file is never removed.        *)
C4_QueueAppendOnly ==
    [][ /\ IsPrefix(read_text(queue_file), read_text(queue_file'))
        /\ exists(queue_file) => exists(queue_file')
      ]_vars

C4_Witness == NumRows(queue_file) = 2 /\ call.op = "stop" /\ call.result = "ok"

(* C5: stop() with a marker, a successful remote stop and a media file     *)
(* found appends exactly the row path;name;date;recorded;attendees, with   *)
(* name, date and attendees the newline-separated fields stored in the     *)
(* marker, and clears the marker.                                          *)
MarkerFields(f) == split(read_text(f), NL)

C5_StopEnqueuesMarkerMeeting ==
    [][ (/\ Called("stop")
         /\ exists(pending_file)
         /\ call'.rc = "ok"
         /\ latest_recording(media') # <<>>) =>
            /\ queue_file' = read_text(queue_file)
                   \o latest_recording(media') \o <<";">>
                   \o MarkerFields(pending_file)[1] \o <<";">>
                   \o MarkerFields(pending_file)[2] \o <<";">>
                   \o <<"recorded">> \o <<";">>
                   \o MarkerFields(pending_file)[3] \o <<NL>>
            /\ ~exists(pending_file')
            /\ call'.result = "ok"
      ]_vars

(* C6: stop() with a marker, a successful remote stop and no media file    *)
(* found clears the marker, reports FileNotFound and appends nothing.      *)
C6_StopNoFile ==
    [][ (/\ Called("stop")
         /\ exists(pending_file)
         /\ call'.rc = "ok"
         /\ latest_recording(media') = <<>>) =>
            /\ ~exists(pending_file')
            /\ call'.result = "FileNotFound"
            /\ queue_file' = queue_file
      ]_vars

C6_Witness ==
    call.op = "stop" /\ call.rc = "ok" /\ media = <<>> /\ ~exists(pending_file)

(* C7: stop() or abort() without a marker fails with NotRecording, does    *)
(* not invoke the recorder and changes neither the marker, the queue, the  *)
(* media files nor the job slot.                                           *)
C7_NotRecording ==
    [][ ((Called("stop") \/ Called("abort")) /\ ~exists(pending_file)) =>
            /\ call'.result = "NotRecording"
            /\ call'.remote = 0
            /\ UNCHANGED <<pending_file, queue_file, media, obsRec, processing_pid>>
      ]_vars

C7_Witness ==
    /\ call.op = "stop"
    /\ call.result = "NotRecording"
    /\ media # <<>>
    /\ exists(queue_file)
    /\ obsRec

(* C8: abort() leaves the queue log as it was, in every outcome.           *)
C8_AbortKeepsQueue ==
    [][ Called("abort") => queue_file' = queue_file ]_vars

C8_Witness ==
    call.op = "abort" /\ call.result = "ok" /\ NumRows(queue_file) = 1

(* C9: the marker is written only by a start() whose remote start control  *)
(* returned success; a start() that does not detect the recorder within    *)
(* the polls, or whose remote start fails or times out, writes no marker;  *)
(* the remote start control is invoked at most once per call.              *)
C9_FailedStartIdle ==
    [][ Called("start") =>
            /\ call'.remote <= 1
            /\ pending_file' # pending_file => call'.rc = "ok"
            /\ (~exists(pending_file) /\ call'.rc # "ok") => ~exists(pending_file')
            /\ (~exists(pending_file) /\ ~obsProc') =>
                   (~exists(pending_file') /\ call'.remote = 0)
            /\ (~exists(pending_file) /\ call'.rc = "ok") => exists(pending_file')
      ]_vars

C9_Witness ==
    call.op = "start" /\ call.rc = "timeout" /\ ~exists(pending_file) /\ obsRec

(* C10: stop() with a marker whose remote stop fails clears the marker     *)
(* before reporting the failure.                                           *)
C10_StopFailureClearsMarker ==
    [][ (Called("stop") /\ exists(pending_file) /\ call'.rc = "fail") =>
            ~exists(pending_file')
      ]_vars

(* C11: process() fails with AlreadyProcessing, spawning no job, exactly   *)
(* when the tracked pid is set and that process is still present; a check  *)
(* that finds the tracked pid dead clears the slot and goes on as from     *)
(* Idle.                                                                   *)
CheckPassed == \E r \in ReqThreads : req[r] = "idle" /\ req'[r] = "checked"

TrackedAlive == processing_pid # None /\ ProcessExists(processing_pid)

C11_ProcessGate ==
    [][ /\ (Called("process") /\ call'.result = "AlreadyProcessing") =>
               /\ TrackedAlive
               /\ workers' = workers /\ jobs' = jobs
               /\ processing_pid' = processing_pid
        /\ CheckPassed => (~TrackedAlive /\ processing_pid' = None)
      ]_vars

C11_Witness ==
    /\ Len(workers) = 1 /\ workers[1] = "reaped" /\ jobs[1] = "exited"
    /\ processing_pid = None
    /\ \E r \in ReqThreads : req[r] = "checked"

(* C12: an accepted process() returns when the worker thread has been      *)
(* started, before the job has run; once the job has terminated or could   *)
(* not be spawned, the worker finishes and the tracked pid is eventually   *)
(* empty again.                                                            *)
C12_JobSlotCycle ==
    /\ [][ (Called("process") /\ call'.result = "ok") =>
               /\ Len(workers') = Len(workers) + 1
               /\ workers'[Len(workers')] = "started"
               /\ jobs'[Len(jobs')] = "none"
         ]_vars
    /\ \A w \in 1..MaxJobs :
           (/\ Len(workers) >= w /\ workers[w] # "done"
            /\ (jobs[w] = "exited" \/ workers[w] = "reaped"))
               ~> (Len(workers) >= w /\ workers[w] = "done" /\ processing_pid = None)

C12_Witness ==
    /\ Len(workers) = 2 /\ processing_pid = None
    /\ workers[1] = "done" /\ jobs[1] = "exited"
    /\ workers[2] = "done" /\ jobs[2] = "none"

(* C13: get_status changes neither the marker, the queue log nor the job   *)
(* slot; it reports is_recording exactly when the marker exists and        *)
(* returns every row of the queue log that has at least four fields, the   *)
(* dates in descending order.                                              *)
FileRows == IF exists(queue_file) THEN csv_reader(read_text(queue_file)) ELSE <<>>

C13_StatusReadOnly ==
    [][ Called("status") =>
          LET q == call'.queue
              rows == FileRows
              long == {i \in 1..Len(rows) : Len(rows[i]) >= 4}
          IN  /\ UNCHANGED <<pending_file, queue_file, media, processing_pid,
                             workers, jobs>>
              /\ (call'.result = "recording") <=> exists(pending_file)
              /\ Len(q) = Cardinality(long)
              /\ \A i \in long :
                     Cardinality({j \in 1..Len(q) : q[j] = QueueEntry(rows[i])})
                       = Cardinality({j \in long :
                                        QueueEntry(rows[j]) = QueueEntry(rows[i])})
              /\ \A i, j \in 1..Len(q) : i < j => ~str_lt(q[i].date, q[j].date)
      ]_vars

C13_Witness ==
    /\ call.op = "status" /\ call.result = "recording"
    /\ Len(FileRows) = 3 /\ Len(call.queue) = 2
    /\ Len(FileRows[1]) = 4 /\ Len(FileRows[2]) = 3 /\ Len(FileRows[3]) = 5
    /\ str_lt(FileRows[1][3], FileRows[3][3])

(* C14: discard(id) fails with not-implemented for every id and in every   *)
(* state, and changes neither the marker, the queue log, the media files   *)
(* nor the job slot.                                                       *)
C14_DiscardNotImplemented ==
    [][ Called("discard") =>
            /\ call'.result = "NotImplemented"
            /\ UNCHANGED <<pending_file, queue_file, media, processing_pid,
                           workers, jobs>>
      ]_vars

C14_Witness ==
    /\ call.op = "discard"
    /\ exists(pending_file) /\ exists(queue_file) /\ media # <<>>

Unnumbered(subs) == [i \in 1..Len(subs) |-> [subs[i] EXCEPT !.index = 0]]

RECURSIVE IsSubsequence(_, _)
IsSubsequence(s, t) ==
    IF s = <<>> THEN TRUE
    ELSE IF t = <<>> THEN FALSE
    ELSE IF Head(s) = Head(t) THEN IsSubsequence(Tail(s), Tail(t))
    ELSE IsSubsequence(s, Tail(t))

AllLabelled == labelled_me(me_subs) \o labelled_others(other_subs)

StartingAt(subs, t) ==
    LET at(sub) == sub.start = t
        sel == SelectSeq(subs, at)
    IN  [i \in 1..Len(sel) |-> <<sel[i].start, sel[i].speaker, sel[i].content>>]

C17_MergeStableSort ==
    transcript.printed =>
        /\ Len(transcript.lines) = Len(me_subs) + Len(other_subs)
        /\ \A i \in 1..(Len(transcript.lines) - 1) :
               transcript.lines[i].start <= transcript.lines[i + 1].start
        /\ \A t \in MergeStarts :
               StartingAt(transcript.lines, t) = StartingAt(AllLabelled, t)

C17_Witness ==
    /\ transcript.printed
    /\ Len(me_subs) = 2 /\ Len(other_subs) = 2
    /\ me_subs[1].start > other_subs[1].start
    /\ me_subs[2].start = other_subs[1].start
    /\ other_subs[2].start = other_subs[1].start
    /\ other_subs[2].content # other_subs[1].content

(* C18: merging with the two files in the other order prints the same      *)
(* lines, apart from the order among lines with equal start: position by   *)
(* position the starts agree, and every line occurs equally often.         *)
SwappedLines == merged(labelled_others(other_subs) \o labelled_me(me_subs))

Occurrences(lines, l) == Cardinality({j \in 1..Len(lines) : lines[j] = l})

C18_MergeOrderIndependent ==
    transcript.printed =>
        /\ Len(SwappedLines) = Len(transcript.lines)
        /\ \A k \in 1..Len(transcript.lines) :
               /\ SwappedLines[k].start = transcript.lines[k].start
               /\ Occurrences(SwappedLines, transcript.lines[k])
                      = Occurrences(transcript.lines, transcript.lines[k])

C18_Witness ==
    /\ transcript.printed
    /\ Len(me_subs) = 1 /\ Len(other_subs) = 2
    /\ other_subs[2].start < me_subs[1].start
    /\ other_subs[1].start = me_subs[1].start
    /\ SwappedLines # transcript.lines

(* C19: the speaker of every printed line is "Me", "Others" or "Speaker"   *)
(* followed by a space and one or more digits; it is never empty.          *)
IsSpeakerLabel(speaker) ==
    \/ speaker = <<"Me">>
    \/ speaker = <<"Others">>
    \/ /\ Len(speaker) >= 3
       /\ speaker[1] = "Speaker" /\ speaker[2] = " "
       /\ \A i \in 3..Len(speaker) : IsDigit(speaker[i])

C19_SpeakerLabels ==
    transcript.printed =>
        \A k \in 1..Len(transcript.lines) : IsSpeakerLabel(transcript.lines[k].speaker)

C19_Witness ==
    /\ transcript.printed
    /\ \E k \in 1..Len(transcript.lines) :
           transcript.lines[k].speaker = <<"Speaker", " ", "1", "2">>
    /\ \E k \in 1..Len(transcript.lines) : transcript.lines[k].speaker = <<"Me">>
    /\ \E k \in 1..Len(other_subs) : other_subs[k].content = <<"[", "x", "]", " ", "hi">>
    /\ \E k \in 1..Len(transcript.lines) : transcript.lines[k].speaker = <<"Others">>

(* C20: every line is printed as "[HH:MM:SS] speaker: text" with hours,    *)
(* minutes and seconds of the start as two zero-padded digits each, the    *)
(* start cut to whole seconds.                                             *)
HHMMSS(ms) ==
    zero_padded(ms \div 3600000, 2) \o <<":">>
        \o zero_padded((ms \div 60000) % 60, 2) \o <<":">>
        \o zero_padded((ms \div 1000) % 60, 2)

C20_LineFormat ==
    transcript.printed =>
        \A k \in 1..Len(transcript.lines) :
            LET l == transcript.lines[k]
            IN  l.text = <<"[">> \o HHMMSS(l.start) \o <<"]", " ">> \o l.speaker
                            \o <<":", " ">> \o strip(l.content)

(* C21: every caption the loop has handled carries the label of the first  *)
(* segment, in list order, whose overlap with it is the largest, when that *)
(* overlap is positive; with no positive overlap its text is unchanged.    *)
Overlap(cap, seg) ==
    LET lo == IF cap.start >= seg.start THEN cap.start ELSE seg.start
        hi == IF cap.end <= seg.end THEN cap.end ELSE seg.end
    IN  IF hi - lo > 0 THEN hi - lo ELSE 0

ExpectedContent(cap) ==
    LET n == Len(speaker_segments)
        positive == {k \in 1..n : Overlap(cap, speaker_segments[k]) > 0}
        largest == {k \in positive :
                      \A j \in 1..n : Overlap(cap, speaker_segments[j])
                                         <= Overlap(cap, speaker_segments[k])}
        first == CHOOSE k \in largest : \A j \in largest : k <= j
        who == speaker_segments[first].speaker
    IN  IF positive = {} THEN cap.content
        ELSE <<"[", "Speaker", " ">> \o SubSeq(who, 3, Len(who)) \o <<"]", " ">>
                 \o cap.content

C21_DiarizationAssignment ==
    diarize.pc \in {"assigning", "done", "write_failed"} =>
        \A j \in 1..(diarize.i - 1) :
            /\ diarize.subtitles[j].content = ExpectedContent(captions[j])
            /\ diarize.subtitles[j].start = captions[j].start
            /\ diarize.subtitles[j].end = captions[j].end

C21_Witness ==
    /\ diarize.pc = "done"
    /\ Len(captions) = 2 /\ Len(speaker_segments) = 2
    /\ captions[1].start = 4000 /\ captions[2].start = 10000
    /\ speaker_segments[1].start = 0 /\ speaker_segments[2].start = 12000
    /\ speaker_segments[1].speaker # speaker_segments[2].speaker
    /\ diarize.output[1].content # diarize.output[2].content

(* C23: when the model fails to load or the inference fails, diarize_audio *)
(* returns False and no output file exists; an output file exists only     *)
(* after the loop has handled every caption, and a successful run writes   *)
(* all of them.                                                            *)
C23_DiarizationFailure ==
    /\ diarize.pc \in {"load_failed", "infer_failed"} =>
           (diarize.result = "False" /\ diarize.output = NoOutput)
    /\ diarize.output # NoOutput =>
           (/\ diarize.pc \in {"done", "write_failed"}
            /\ diarize.i > Len(captions))
    /\ diarize.pc = "done" => Len(diarize.output) = Len(captions)

C23_Witness ==
    /\ diarize.pc = "infer_failed"
    /\ Len(captions) = 2 /\ speaker_segments # <<>>

(* C22: when a file of the merger is missing or does not parse, neither a  *)
(* header line nor a caption line is printed and the exit status is 1; a   *)
(* run that prints anything of the transcript has read both files.         *)
C22_MergeNoOutputOnError ==
    /\ transcript.exit = "1" =>
           (transcript.header = <<>> /\ transcript.lines = <<>> /\ ~transcript.printed)
    /\ (transcript.header # <<>> \/ transcript.lines # <<>>) =>
           (/\ transcript.exit = "0"
            /\ Len(transcript.lines) = Len(me_subs) + Len(other_subs))

C22_Witness ==
    /\ transcript.exit = "1"
    /\ transcript.error = <<"Error parsing SRT files:">>
    /\ Len(me_subs) = 2 /\ Len(other_subs) = 2

(* C25: a caption of the others file whose text begins with a bracketed    *)
(* "Speaker N" and whitespace is printed with speaker "Speaker N" and the  *)
(* whole text that follows that prefix, on one line or several; any other  *)
(* caption of that file is printed with speaker "Others" and its text.     *)
HasSpeakerPrefix(c) ==
    /\ Len(c) >= 5
    /\ c[1] = "[" /\ c[2] = "Speaker" /\ c[3] = " " /\ IsDigit(c[4])
    /\ digits_end(c, 4) <= Len(c) /\ c[digits_end(c, 4)] = "]"
    /\ digits_end(c, 4) < Len(c) /\ IsSpace(c[digits_end(c, 4) + 1])

ExpectedLine(sub) ==
    LET c == sub.content
        d == digits_end(c, 4)
    IN  IF HasSpeakerPrefix(c)
        THEN [start |-> sub.start, speaker |-> SubSeq(c, 2, d - 1),
              content |-> SubSeq(c, spaces_end(c, d + 1), Len(c))]
        ELSE [start |-> sub.start, speaker |-> <<"Others">>, content |-> c]

C25_SpeakerPrefixRemoved ==
    transcript.printed =>
        \A k \in 1..Len(other_subs) :
            \E j \in 1..Len(transcript.lines) :
                /\ transcript.lines[j].start = ExpectedLine(other_subs[k]).start
                /\ transcript.lines[j].speaker = ExpectedLine(other_subs[k]).speaker
                /\ transcript.lines[j].content = ExpectedLine(other_subs[k]).content

(* C24: a run rejects a caption exactly when a rule applies to its trimmed, *)
(* lower-cased text: (1) empty, periods only, or a fixed phrase with an     *)
(* optional period; (2) a caption was kept before it, the gap from the end  *)
(* of the last kept caption to its start is more than 20 seconds and it has *)
(* at most 2 words; (3) shorter than 20 characters and one of the six       *)
(* fillers.  A rejected caption is never the reference of rule (2).         *)
TrimmedLower(content) ==
    [i \in 1..Len(strip(content)) |-> lower(strip(content)[i])]

Rule1(text) ==
    \/ text = <<>>
    \/ text # <<>> /\ \A i \in 1..Len(text) : text[i] = "."
    \/ \E p \in { <<"thank", " ", "you">>, <<"thanks">>,
                   <<"thank", " ", "you", " ", "very", " ", "much">>,
                   <<"thanks", " ", "for", " ", "watching">>,
                   <<"don't", " ", "forget", " ", "to", " ", "like", " ", "and", " ",
                     "subscribe">>,
                   <<"subscribe">>, <<"like", " ", "and", " ", "subscribe">> } :
           text = p \/ text = p \o <<".">>

Rule2(subs, i, K, text) ==
    /\ \E j \in K : j < i
    /\ LET last == CHOOSE j \in K : j < i /\ \A h \in K : h < i => h <= j
       IN  subs[i].start - subs[last].end > 20 * 1000
    /\ words(text) <= 2

Rule3(text) ==
    /\ len(text) < 20
    /\ text \in { <<"thank", " ", "you">>, <<"thanks">>, <<"yes">>, <<"no">>,
                  <<"okay">>, <<"ok">> }

KeptByRules(subs, K) ==
    \A i \in 1..Len(subs) :
        i \in K <=> ~(\/ Rule1(TrimmedLower(subs[i].content))
                      \/ Rule2(subs, i, K, TrimmedLower(subs[i].content))
                      \/ Rule3(TrimmedLower(subs[i].content)))

RECURSIVE Selected(_, _, _)
Selected(subs, K, i) ==
    IF i > Len(subs) THEN <<>>
    ELSE (IF i \in K THEN <<subs[i]>> ELSE <<>>) \o Selected(subs, K, i + 1)

C24_RejectedIffRule ==
    [][ filter_out'.runs = filter_out.runs + 1 =>
          \E K \in SUBSET (1..Len(filter_input)) :
              /\ KeptByRules(filter_input, K)
              /\ Unnumbered(filter_out'.filtered_subtitles)
                     = Unnumbered(Selected(filter_input, K, 1))
      ]_vars

C24_Witness ==
    /\ filter_out.runs = 1
    /\ Len(subtitles) = 3 /\ Len(filter_out.filtered_subtitles) = 1
    /\ subtitles[1].content = <<"Hi", " ", "there">>
    /\ subtitles[2].content = <<"yes">>
    /\ subtitles[3].content = <<"Hi", " ", "there">>
    /\ subtitles[3].start - subtitles[1].end > 20 * 1000
    /\ subtitles[3].start - subtitles[2].end <= 20 * 1000

(* C27: abort() never deletes a media file a queue row refers to: every    *)
(* media path of the queue log that exists before an abort() exists after  *)
(* it.                                                                     *)
QueuedPaths == { FileRows[i][1] : i \in { k \in 1..Len(FileRows) : FileRows[k] # <<>> } }

MediaExists(path, m) == \E i \in 1..Len(m) : MediaPath(m[i]) = path

C27_AbortKeepsQueuedMedia ==
    [][ Called("abort") =>
          \A path \in QueuedPaths : MediaExists(path, media) => MediaExists(path, media')
      ]_vars

(* C28: no two rows of the queue log hold the same media path.             *)
C28_QueuePathsDistinct ==
    \A i, j \in 1..Len(FileRows) :
        (i # j /\ FileRows[i] # <<>> /\ FileRows[j] # <<>>) => FileRows[i][1] # FileRows[j][1]

(* C29: a meeting round-trips through the flat files: after a successful   *)
(* stop() of a meeting started with a name, an attendee list and a date,   *)
(* the queue the status query returns has gained exactly one entry, and it *)
(* holds an entry with that name and that date.                            *)
C29_RoundTrip ==
    [][ (Called("stop") /\ call'.result = "ok") =>
          \A meeting_name \in RoundTripNames, attendees \in AttendeeLists, now \in Clock :
              pending_file = MarkerText(meeting_name, strftime(now), attendees) =>
                  LET listed == status_queue'
                  IN  /\ Len(listed) = Len(status_queue) + 1
                      /\ \E k \in 1..Len(listed) :
                             /\ listed[k].name = meeting_name
                             /\ listed[k].date = strftime(now)
      ]_vars

(* C26: the recording state and the job slot are independent: start(),     *)
(* stop(), abort() and discard() leave the tracked process id as it was,   *)
(* and process() and every step of the monitoring thread and of the job    *)
(* leave the marker and the queue log as they were.                        *)
C26_RecordingAndJobIndependent ==
    [][ /\ (Called("start") \/ Called("stop") \/ Called("abort") \/ Called("discard")) =>
              UNCHANGED <<processing_pid, workers, jobs>>
        /\ (Called("process") \/ Called("none")) =>
              UNCHANGED <<pending_file, queue_file>>
      ]_vars

C26_Witness ==
    /\ call.op = "stop" /\ call.result = "ok"
    /\ exists(queue_file)
    /\ processing_pid # None
    /\ Len(workers) >= 1 /\ workers[1] = "waiting"

====
